---- MODULE Spec2Model ----
(***************************************************************************)
(* A model of str.h, a dynamically resizable string: a heap block holding  *)
(* length, capacity and data[capacity], held by the caller through a       *)
(* handle, mutated through a pointer to the handle (operations that may    *)
(* realloc) or through the handle (operations that work in place).         *)
(*                                                                         *)
(* Bytes are their ASCII codes; data is a sequence of capacity bytes, so   *)
(* the C byte data[i] is data[i + 1] here.  A C string argument is the     *)
(* sequence of its bytes before the terminator.  Bytes that malloc and     *)
(* realloc hand out unwritten are indeterminate: every allocation draws    *)
(* them from MallocFill.                                                   *)
(***************************************************************************)
EXTENDS Integers, Sequences, FiniteSets, TLC

VARIABLES heap,   \* address -> block (live, length, capacity, data)
          s,      \* the caller's handle: an address
          last,   \* the last operation called, its arguments and return value
          out,    \* the buffers the last operation returned
          ref,    \* reference byte sequence of the edit operations
          cut,    \* the span the last str_remove took out
          nops    \* number of mutating calls made so far

vars == <<heap, s, last, out, ref, cut, nops>>

\* ------------------------------------------------------------- bounds
MaxOps == 2
SizeBits == 8

\* ---------------------------------------------------------- constants
STR_MIN_CAPACITY == 16

SIZE_MOD == 2 ^ SizeBits

Addr == {1, 2}
MallocFill == {0, 170}

\* ------------------------------------------------------------ helpers
MIN(a, b) == IF a < b THEN a ELSE b
MAX(a, b) == IF a > b THEN a ELSE b

SizeAdd(a, b) == (a + b) % SIZE_MOD
SizeSub(a, b) == (a - b + SIZE_MOD) % SIZE_MOD
SizeMul(a, b) == (a * b) % SIZE_MOD

isupper(c) == c \in 65..90
islower(c) == c \in 97..122
isspace(c) == c \in ({32} \cup (9..13))
tolower(c) == IF isupper(c) THEN c + 32 ELSE c
toupper(c) == IF islower(c) THEN c - 32 ELSE c

\* memset: n bytes of value c
Fill(n, c) == SubSeq([i \in 1..n |-> c], 1, n)

\* memcpy / memmove of bytes to data + off (the source is read before the
\* write); data keeps its size
WriteAt(data, off, bytes) ==
  SubSeq(SubSeq(data, 1, off) \o bytes \o SubSeq(data, off + Len(bytes) + 1, Len(data)),
         1, Len(data))

\* the n bytes at data + off
ReadAt(data, off, n) == SubSeq(data, off + 1, off + n)

\* strlen(data + off): bytes before the first zero byte
RECURSIVE strlenAt(_, _)
strlenAt(data, off) ==
  IF off >= Len(data) \/ data[off + 1] = 0 THEN 0
  ELSE 1 + strlenAt(data, off + 1)

\* the C string a caller passes when it points at these bytes
CStr(bytes) == SubSeq(bytes, 1, strlenAt(bytes, 0))

\* strncmp(data + off, pat, strlen(pat)) == 0, pat without zero bytes
MatchAt(data, off, pat) ==
  /\ off + Len(pat) <= Len(data)
  /\ ReadAt(data, off, Len(pat)) = pat

\* strstr(data + off, pat): offset of the first match inside the C string at
\* data + off, or -1 for NULL
strstr(data, off, pat) ==
  LET end == off + strlenAt(data, off)
      hits == {j \in off..end : j + Len(pat) <= end /\ MatchAt(data, j, pat)}
  IN IF hits = {} THEN -1 ELSE CHOOSE j \in hits : \A k \in hits : j <= k

\* ------------------------------------------------------------- blocks
Dead == [live |-> FALSE, length |-> 0, capacity |-> 0, data |-> <<>>]

Block(len, cap, data) ==
  [live |-> TRUE, length |-> len, capacity |-> cap, data |-> data]

\* the content: the first length bytes
Bytes(b) == SubSeq(b.data, 1, b.length)

Other(p) == CHOOSE a \in Addr : a # p

RECURSIVE RoundLoop(_, _)
RoundLoop(result, capacity) ==
  IF result < capacity THEN RoundLoop(SizeMul(result, 2), capacity) ELSE result

str_round_capacity(capacity) == RoundLoop(STR_MIN_CAPACITY, capacity)

\* str_new when malloc succeeds; fill is what the fresh bytes hold
str_new(capacity, fill) ==
  LET cap == str_round_capacity(MAX(capacity, 1))
  IN Block(0, cap, WriteAt(Fill(cap, fill), 0, <<0>>))

str_from(cstr, fill) ==
  LET b == str_new(SizeAdd(Len(cstr), 1), fill)
  IN [b EXCEPT !.data = WriteAt(b.data, 0, cstr \o <<0>>), !.length = Len(cstr)]

\* str_format, text being the expansion of the format (vsnprintf's output)
str_format(text, fill) ==
  LET size == Len(text)
      b == str_new(size + 1, fill)
      d == WriteAt(b.data, 0, SubSeq(text, 1, MIN(size, b.capacity - 1)) \o <<0>>)
      written == size
  IN IF written >= b.capacity
     THEN [b EXCEPT !.data = WriteAt(d, b.capacity - 1, <<0>>),
                    !.length = b.capacity - 1]
     ELSE [b EXCEPT !.data = d, !.length = written]

\* ------------------------------------------------------------ realloc
\* What one realloc call does: fail, grow where the block is, or move it.
ReallocOutcome ==
  {[kind |-> "fail", fill |-> 0]}
    \cup [kind : {"same", "move"}, fill : MallocFill]

\* realloc(p, sizeof(str) + capacity): NULL (ret 0) leaves the block alone
realloc(hp, p, capacity, o) ==
  LET b == hp[p]
      grown == [b EXCEPT !.data = b.data \o Fill(capacity - Len(b.data), o.fill)]
  IN CASE o.kind = "fail" -> [heap |-> hp, ret |-> 0]
       [] o.kind = "same" -> [heap |-> [hp EXCEPT ![p] = grown], ret |-> p]
       [] OTHER -> [heap |-> [hp EXCEPT ![p] = Dead, ![Other(p)] = grown],
                    ret |-> Other(p)]

\* Operations taking a pointer to the handle return the heap, the handle *s and the return value.
Res(hp, p, r) == [heap |-> hp, s |-> p, ret |-> r]

str_ensure_capacity(hp, p, capacity, o) ==
  IF hp[p].capacity >= capacity THEN Res(hp, p, TRUE)
  ELSE LET cap == str_round_capacity(capacity)
           r == realloc(hp, p, cap, o)
       IN IF r.ret = 0 THEN Res(hp, p, FALSE)
          ELSE Res([r.heap EXCEPT ![r.ret].capacity = cap], r.ret, TRUE)

str_append(hp, p, append, o) ==
  LET append_len == Len(append)
      e == str_ensure_capacity(hp, p, hp[p].length + append_len + 1, o)
      b == e.heap[e.s]
  IN IF ~e.ret THEN Res(hp, p, FALSE)
     ELSE Res([e.heap EXCEPT ![e.s] =
                 [b EXCEPT !.data = WriteAt(b.data, b.length, append \o <<0>>),
                           !.length = b.length + append_len]], e.s, TRUE)

\* str_append_fmt, text being the expansion of the format: vsnprintf writes
\* size bytes and the terminator, and returns written = size
str_append_fmt(hp, p, text, o) ==
  LET size == Len(text)
      e == str_ensure_capacity(hp, p, hp[p].length + size + 1, o)
      b == e.heap[e.s]
      d == WriteAt(b.data, b.length, text \o <<0>>)
      written == size
  IN IF ~e.ret THEN Res(hp, p, FALSE)
     ELSE IF written < 0 \/ written >= size
          THEN Res([e.heap EXCEPT ![e.s] =
                      [b EXCEPT !.data = WriteAt(d, b.length + size, <<0>>),
                                !.length = b.length + size]], e.s, TRUE)
          ELSE Res([e.heap EXCEPT ![e.s] =
                      [b EXCEPT !.data = d, !.length = b.length + written]],
                   e.s, TRUE)

str_append_char(hp, p, c, o) ==
  LET e == str_ensure_capacity(hp, p, hp[p].length + 2, o)
      b == e.heap[e.s]
  IN IF ~e.ret THEN Res(hp, p, FALSE)
     ELSE Res([e.heap EXCEPT ![e.s] =
                 [b EXCEPT !.data = WriteAt(WriteAt(b.data, b.length, <<c>>),
                                            b.length + 1, <<0>>),
                           !.length = b.length + 1]], e.s, TRUE)

str_prepend(hp, p, prepend, o) ==
  LET prepend_len == Len(prepend)
      e == str_ensure_capacity(hp, p, hp[p].length + prepend_len + 1, o)
      b == e.heap[e.s]
      moved == WriteAt(b.data, prepend_len, ReadAt(b.data, 0, b.length + 1))
  IN IF ~e.ret THEN Res(hp, p, FALSE)
     ELSE Res([e.heap EXCEPT ![e.s] =
                 [b EXCEPT !.data = WriteAt(moved, 0, prepend),
                           !.length = b.length + prepend_len]], e.s, TRUE)

\* str_insert refusing index = length
str_insert_at_end_refused(hp, p, index, insert, o) ==
  IF index >= hp[p].length THEN Res(hp, p, FALSE)
  ELSE
  LET insert_len == Len(insert)
      e == str_ensure_capacity(hp, p, hp[p].length + insert_len + 1, o)
      b == e.heap[e.s]
      moved == WriteAt(b.data, index + insert_len,
                       ReadAt(b.data, index, b.length - index + 1))
  IN IF ~e.ret THEN Res(hp, p, FALSE)
     ELSE Res([e.heap EXCEPT ![e.s] =
                 [b EXCEPT !.data = WriteAt(moved, index, insert),
                           !.length = b.length + insert_len]], e.s, TRUE)

str_insert(hp, p, index, insert, o) ==
  IF index > hp[p].length THEN Res(hp, p, FALSE)
  ELSE
  LET insert_len == Len(insert)
      e == str_ensure_capacity(hp, p, hp[p].length + insert_len + 1, o)
      b == e.heap[e.s]
      moved == WriteAt(b.data, index + insert_len,
                       ReadAt(b.data, index, b.length - index + 1))
  IN IF ~e.ret THEN Res(hp, p, FALSE)
     ELSE Res([e.heap EXCEPT ![e.s] =
                 [b EXCEPT !.data = WriteAt(moved, index, insert),
                           !.length = b.length + insert_len]], e.s, TRUE)

str_remove(hp, p, index, count) ==
  IF index >= hp[p].length THEN Res(hp, p, FALSE)
  ELSE
  LET b == hp[p]
      cnt == MIN(count, b.length - index)
      moved == WriteAt(b.data, index,
                       ReadAt(b.data, index + cnt, b.length - index - cnt + 1))
  IN Res([hp EXCEPT ![p] = [b EXCEPT !.data = moved, !.length = b.length - cnt]],
         p, TRUE)

str_clear(b) == [b EXCEPT !.length = 0, !.data = WriteAt(b.data, 0, <<0>>)]

str_resize(hp, p, new_length, o) ==
  LET e == str_ensure_capacity(hp, p, new_length + 1, o)
      b == e.heap[e.s]
      zeroed == IF new_length > b.length
                THEN WriteAt(b.data, b.length, Fill(new_length - b.length, 0))
                ELSE b.data
  IN IF ~e.ret THEN Res(hp, p, FALSE)
     ELSE Res([e.heap EXCEPT ![e.s] =
                 [b EXCEPT !.data = WriteAt(zeroed, new_length, <<0>>),
                           !.length = new_length]], e.s, TRUE)

RECURSIVE RemoveAllLoop(_, _, _, _)
RemoveAllLoop(b, off, substr, count) ==
  LET j == strstr(b.data, off, substr)
      substr_len == Len(substr)
      moved == WriteAt(b.data, j,
                       ReadAt(b.data, j + substr_len, b.length - j - substr_len + 1))
  IN IF j = -1 THEN [block |-> b, count |-> count]
     ELSE RemoveAllLoop([b EXCEPT !.data = moved, !.length = b.length - substr_len],
                        j, substr, count + 1)

\* str_remove_all for a non-empty substr: the block after the call and the count
str_remove_all(b, substr) == RemoveAllLoop(b, 0, substr, 0)

\* ------------------------------------------------- in-place transforms
\* for (i = 0; i < s->length; i++) s->data[i] = tolower(s->data[i]);
str_to_lower(b) ==
  [b EXCEPT !.data = SubSeq([i \in 1..b.length |-> tolower(b.data[i])], 1, b.length)
                       \o SubSeq(b.data, b.length + 1, Len(b.data))]

str_to_upper(b) ==
  [b EXCEPT !.data = SubSeq([i \in 1..b.length |-> toupper(b.data[i])], 1, b.length)
                       \o SubSeq(b.data, b.length + 1, Len(b.data))]

\* the realloc outcomes left for the calls that follow
Rest(outs) == IF Len(outs) > 1 THEN Tail(outs) ELSE outs

\* The loop of str_snake_case on its own copy p of the handle; outs are the
\* outcomes of the realloc calls it makes, in order; failed: one of them failed.
RECURSIVE SnakeLoop(_, _, _, _, _)
SnakeLoop(hp, p, i, outs, failed) ==
  IF i >= hp[p].length THEN [heap |-> hp, s |-> p, failed |-> failed]
  ELSE IF isupper(hp[p].data[i + 1])
  THEN LET hp1 == [hp EXCEPT ![p].data[i + 1] = tolower(hp[p].data[i + 1])]
           r == str_insert(hp1, p, i, <<95>>, Head(outs))
           grows == hp1[p].capacity < hp1[p].length + 2
       IN IF i > 0
          THEN SnakeLoop(r.heap, r.s, i + 2, IF grows THEN Rest(outs) ELSE outs,
                         failed \/ ~r.ret)
          ELSE SnakeLoop(hp1, p, i + 1, outs, failed)
  ELSE SnakeLoop(hp, p, i + 1, outs, failed)

\* str_snake_case(s): s is the function's own copy of the caller's handle
str_snake_case(hp, p, outs) == SnakeLoop(hp, p, 0, outs, FALSE)

RECURSIVE CamelLoop(_, _, _, _, _)
CamelLoop(data, length, read, write, capitalize_next) ==
  IF read >= length THEN [data |-> data, write |-> write]
  ELSE LET c == data[read + 1]
       IN IF c = 32 \/ c = 95
          THEN CamelLoop(data, length, read + 1, write, TRUE)
          ELSE IF capitalize_next
          THEN CamelLoop(WriteAt(data, write, <<toupper(c)>>), length,
                         read + 1, write + 1, FALSE)
          ELSE CamelLoop(WriteAt(data, write, <<tolower(c)>>), length,
                         read + 1, write + 1, FALSE)

str_camel_case(b) ==
  IF b.length = 0 THEN b
  ELSE LET first == WriteAt(b.data, 0, <<tolower(b.data[1])>>)
           r == CamelLoop(first, b.length, 1, 1, FALSE)
       IN [b EXCEPT !.data = WriteAt(r.data, r.write, <<0>>), !.length = r.write]

RECURSIVE PascalLoop(_, _, _, _, _)
PascalLoop(data, length, read, write, new_word) ==
  IF read >= length THEN [data |-> data, write |-> write]
  ELSE LET c == data[read + 1]
           nread == read + 1
       IN IF c = 32 \/ c = 95
          THEN PascalLoop(data, length, nread, write, TRUE)
          ELSE IF new_word
          THEN PascalLoop(WriteAt(data, write, <<toupper(c)>>), length,
                          nread, write + 1, FALSE)
          ELSE IF isupper(c) /\ nread < length /\ islower(data[nread + 1])
          THEN PascalLoop(WriteAt(data, write, <<c>>), length,
                          nread, write + 1, FALSE)
          ELSE PascalLoop(WriteAt(data, write, <<tolower(c)>>), length,
                          nread, write + 1, new_word)

str_pascal_case(b) ==
  IF b.length = 0 THEN b
  ELSE LET r == PascalLoop(b.data, b.length, 0, 0, TRUE)
       IN [b EXCEPT !.data = WriteAt(r.data, r.write, <<0>>), !.length = r.write]

\* while (start < length && isspace(data[start])) ++start
RECURSIVE SkipSpace(_, _, _)
SkipSpace(data, length, start) ==
  IF start < length /\ isspace(data[start + 1])
  THEN SkipSpace(data, length, start + 1) ELSE start

\* while (end > low && isspace(data[end])) --end
RECURSIVE BackSpace(_, _, _)
BackSpace(data, low, end) ==
  IF end > low /\ isspace(data[end + 1])
  THEN BackSpace(data, low, end - 1) ELSE end

str_trim(b) ==
  IF b.length = 0 THEN b
  ELSE LET start == SkipSpace(b.data, b.length, 0)
           end == BackSpace(b.data, start, b.length - 1)
           len == SizeAdd(SizeSub(end, start), 1)
           moved == WriteAt(b.data, 0, ReadAt(b.data, start, len))
       IN [b EXCEPT !.data = WriteAt(moved, len, <<0>>), !.length = len]

str_rtrim(b) ==
  IF b.length = 0 THEN b
  ELSE LET end == BackSpace(b.data, 0, b.length - 1)
       IN [b EXCEPT !.data = WriteAt(b.data, end + 1, <<0>>), !.length = end + 1]

str_ltrim(b) ==
  IF b.length = 0 THEN b
  ELSE LET start == SkipSpace(b.data, b.length, 0)
           len == b.length - start
           moved == WriteAt(b.data, 0, ReadAt(b.data, start, len))
       IN [b EXCEPT !.data = WriteAt(moved, len, <<0>>), !.length = len]

RECURSIVE SwapLoop(_, _, _)
SwapLoop(data, start, end) ==
  IF start < end
  THEN SwapLoop([data EXCEPT ![start + 1] = data[end + 1],
                             ![end + 1] = data[start + 1]], start + 1, end - 1)
  ELSE data

str_reverse_in_place(b) ==
  IF b.length < 2 THEN b
  ELSE [b EXCEPT !.data = SwapLoop(b.data, 0, b.length - 1)]

\* ------------------------------------------- operations returning buffers
\* What one run of malloc calls does: fail, or hand out bytes holding fill.
MallocOutcome == {[ok |-> FALSE, fill |-> 0]} \cup [ok : {TRUE}, fill : MallocFill]

\* A returned str*: <<>> for NULL, <<block>> otherwise.
str_substr(b, start, length, m) ==
  IF start >= b.length \/ ~m.ok THEN <<>>
  ELSE LET len == MIN(length, b.length - start)
           r == str_new(SizeAdd(len, 1), m.fill)
           copied == WriteAt(r.data, 0, ReadAt(b.data, start, len))
       IN <<[r EXCEPT !.data = WriteAt(copied, len, <<0>>), !.length = len]>>

\* while ((p = strstr(p, old))) { ++count; p += old_len; }
RECURSIVE CountLoop(_, _, _, _)
CountLoop(data, p, old, count) ==
  LET j == strstr(data, p, old)
  IN IF j = -1 THEN count ELSE CountLoop(data, j + Len(old), old, count + 1)

\* while (*p) { if (strncmp(p, old, old_len) == 0) ... else *dest++ = *p++; }
\* acc is what has been written from result->data on
RECURSIVE CopyLoop(_, _, _, _, _)
CopyLoop(data, p, old, new, acc) ==
  IF p >= Len(data) \/ data[p + 1] = 0 THEN acc
  ELSE IF MatchAt(data, p, old)
       THEN CopyLoop(data, p + Len(old), old, new, acc \o new)
       ELSE CopyLoop(data, p + 1, old, new, Append(acc, data[p + 1]))

\* str_replace for a non-empty old
str_replace(b, old, new, m) ==
  LET count == CountLoop(b.data, 0, old, 0)
      result_len == SizeAdd(b.length, SizeMul(count, SizeSub(Len(new), Len(old))))
      r == str_new(SizeAdd(result_len, 1), m.fill)
      written == CopyLoop(b.data, 0, old, new, <<>>)
  IN IF ~m.ok THEN <<>>
     ELSE <<[r EXCEPT !.data = WriteAt(r.data, 0, written \o <<0>>),
                      !.length = result_len]>>

\* str_replace_all for a non-empty old
str_replace_all(b, old, new, m) ==
  LET count == CountLoop(b.data, 0, old, 0)
      result_len == SizeAdd(b.length, SizeMul(count, SizeSub(Len(new), Len(old))))
      r == str_new(SizeAdd(result_len, 1), m.fill)
      written == CopyLoop(b.data, 0, old, new, <<>>)
  IN IF ~m.ok THEN <<>>
     ELSE <<[r EXCEPT !.data = WriteAt(r.data, 0, written \o <<0>>),
                      !.length = result_len]>>

\* one token of str_split: str_new(len + 1), memcpy, terminator, length
Token(data, start, len, fill) ==
  LET r == str_new(SizeAdd(len, 1), fill)
      copied == WriteAt(r.data, 0, ReadAt(data, start, len))
  IN [r EXCEPT !.data = WriteAt(copied, len, <<0>>), !.length = len]

\* the loop of str_split and the token after it, with every malloc succeeding
RECURSIVE SplitLoop(_, _, _, _, _)
SplitLoop(b, start, delim, fill, acc) ==
  LET end == strstr(b.data, start, delim)
  IN IF end = -1
     THEN Append(acc, Token(b.data, start, b.length - start, fill))
     ELSE SplitLoop(b, end + Len(delim), delim, fill,
                    Append(acc, Token(b.data, start, end - start, fill)))

\* str_split for a non-empty delim.  failAt = 0: every malloc succeeds;
\* failAt = 1: the malloc of the array fails; failAt = k + 1: the str_new of
\* token k fails.  tokens: the str** returned (<<>> for NULL); count: *count.
str_split(b, delim, fill, failAt) ==
  LET max_splits == (b.length \div Len(delim)) + 1
      all == SplitLoop(b, 0, delim, fill, <<>>)
  IN IF failAt = 0 \/ failAt > Len(all) + 1
     THEN [tokens |-> all, count |-> Len(all), max_splits |-> max_splits]
     ELSE [tokens |-> <<>>, count |-> MAX(failAt - 2, 0), max_splits |-> max_splits]

RECURSIVE TotalLen(_)
TotalLen(strings) ==
  IF strings = <<>> THEN 0
  ELSE SizeAdd(Head(strings).length, TotalLen(Tail(strings)))

RECURSIVE JoinLoop(_, _, _, _)
JoinLoop(strings, i, delim, acc) ==
  IF i > Len(strings) THEN acc
  ELSE JoinLoop(strings, i + 1, delim,
                acc \o (IF i > 1 THEN delim ELSE <<>>) \o Bytes(strings[i]))

str_join(strings, delim, m) ==
  IF Len(strings) = 0 \/ ~m.ok THEN <<>>
  ELSE LET count == Len(strings)
           total_len == SizeAdd(TotalLen(strings), SizeMul(count - 1, Len(delim)))
           r == str_new(SizeAdd(total_len, 1), m.fill)
           written == JoinLoop(strings, 1, delim, <<>>)
       IN <<[r EXCEPT !.data = WriteAt(r.data, 0, written \o <<0>>),
                      !.length = total_len]>>

\* while (len--) *dest++ = *src--;
Reversed(bytes) ==
  SubSeq([i \in 1..Len(bytes) |-> bytes[Len(bytes) + 1 - i]], 1, Len(bytes))

\* str_reverse with src starting one byte too far (at data + length)
str_reverse_from_terminator(b, m) ==
  IF b.length = 0 \/ ~m.ok THEN <<>>
  ELSE <<Block(b.length, b.length + 1,
               WriteAt(Fill(b.length + 1, m.fill), 0,
                       Reversed(SubSeq(b.data, 2, b.length + 1)) \o <<0>>))>>

str_reverse(b, m) ==
  IF b.length = 0 \/ ~m.ok THEN <<>>
  ELSE <<Block(b.length, b.length + 1,
               WriteAt(Fill(b.length + 1, m.fill), 0, Reversed(Bytes(b)) \o <<0>>))>>

\* ------------------------------------------------------------ queries
\* A str* argument: <<>> for NULL, <<block>> for a buffer.
NULL == <<>>

\* strcmp of two C strings given as their bytes before the terminator; the
\* bytes compare as unsigned char.  The sign of the result is what the
\* standard fixes: -1, 0 or 1 here.
RECURSIVE strcmp(_, _)
strcmp(x, y) ==
  IF x = <<>> /\ y = <<>> THEN 0
  ELSE IF x = <<>> THEN -1
  ELSE IF y = <<>> THEN 1
  ELSE IF Head(x) < Head(y) THEN -1
  ELSE IF Head(x) > Head(y) THEN 1
  ELSE strcmp(Tail(x), Tail(y))

str_compare(s1, s2) ==
  IF s1 = NULL \/ s2 = NULL
  THEN (IF s1 = s2 THEN 0 ELSE IF s1 # NULL THEN 1 ELSE -1)
  ELSE strcmp(CStr(s1[1].data), CStr(s2[1].data))

str_equals(s1, s2) == str_compare(s1, s2) = 0

STR_NPOS == -1

\* str_find: strstr from data on; the offset of the match, or STR_NPOS
str_find(b, substr) ==
  LET found == strstr(b.data, 0, substr)
  IN IF found # -1 THEN found ELSE STR_NPOS

\* for (i = s->length - substr_len + 1; i > 0; --i) if (memcmp(...) == 0) return i - 1;
RECURSIVE RfindLoop(_, _, _)
RfindLoop(b, substr, i) ==
  IF i = 0 THEN STR_NPOS
  ELSE IF ReadAt(b.data, i - 1, Len(substr)) = substr THEN i - 1
  ELSE RfindLoop(b, substr, i - 1)

str_rfind(b, substr) ==
  IF substr = <<>> THEN STR_NPOS
  ELSE IF Len(substr) > b.length THEN STR_NPOS
  ELSE RfindLoop(b, substr, SizeAdd(SizeSub(b.length, Len(substr)), 1))

\* ----------------------------------------------------- loop iterations
\* one iteration of the loop of str_remove_all, strstr having found j:
\* memmove of the tail onto the match, length -= substr_len
RemoveAllBody(b, j, substr) ==
  LET substr_len == Len(substr)
      moved == WriteAt(b.data, j,
                       ReadAt(b.data, j + substr_len,
                              SizeAdd(SizeSub(SizeSub(b.length, j), substr_len), 1)))
  IN [b EXCEPT !.data = moved, !.length = SizeSub(b.length, substr_len)]

\* result[count] = token: the tokens with slot count (from 0) holding token
Store(tokens, count, token) ==
  IF count < Len(tokens) THEN [tokens EXCEPT ![count + 1] = token]
  ELSE Append(tokens, token)

\* s->length / delim_len: division by zero is undefined; it traps, or where
\* the hardware does not trap it gives 0
Quotients(n, d) ==
  IF d = 0 THEN {[fault |-> TRUE, q |-> 0], [fault |-> FALSE, q |-> 0]}
  ELSE {[fault |-> FALSE, q |-> n \div d]}

\* ------------------------------------------------- absent arguments
\* Each public operation with its pointer parameters and those of them it
\* tests for NULL before it reads through them ("*s" is the handle a str**
\* points at, "strings[i]" an element of the array given to str_join).
NullChecks ==
  {<<"str_from", {"cstr"}, {"cstr"}>>,
   <<"str_format", {"format"}, {}>>,
   <<"str_free", {"s"}, {"s"}>>,
   <<"str_len", {"s"}, {"s"}>>,
   <<"str_capacity", {"s"}, {"s"}>>,
   <<"str_empty", {"s"}, {"s"}>>,
   <<"str_ensure_capacity", {"s", "*s"}, {"s", "*s"}>>,
   <<"str_append", {"s", "*s", "append"}, {"s", "*s", "append"}>>,
   <<"str_append_fmt", {"s", "*s", "format"}, {}>>,
   <<"str_append_char", {"s", "*s"}, {"s", "*s"}>>,
   <<"str_prepend", {"s", "*s", "prepend"}, {"s", "*s", "prepend"}>>,
   <<"str_insert", {"s", "*s", "insert"}, {"s", "*s", "insert"}>>,
   <<"str_remove", {"s", "*s"}, {"s", "*s"}>>,
   <<"str_clear", {"s"}, {"s"}>>,
   <<"str_remove_all", {"s", "*s", "substr"}, {"s", "*s", "substr"}>>,
   <<"str_resize", {"s", "*s"}, {"s", "*s"}>>,
   <<"str_at", {"s"}, {"s"}>>,
   <<"str_data", {"s"}, {"s"}>>,
   <<"str_cstr", {"s"}, {"s"}>>,
   <<"str_compare", {"s1", "s2"}, {"s1", "s2"}>>,
   <<"str_equals", {"s1", "s2"}, {"s1", "s2"}>>,
   <<"str_starts_with", {"s", "prefix"}, {"s", "prefix"}>>,
   <<"str_ends_with", {"s", "suffix"}, {"s", "suffix"}>>,
   <<"str_find", {"s", "substr"}, {"s", "substr"}>>,
   <<"str_rfind", {"s", "substr"}, {"s", "substr"}>>,
   <<"str_to_lower", {"s"}, {"s"}>>,
   <<"str_to_upper", {"s"}, {"s"}>>,
   <<"str_snake_case", {"s"}, {"s"}>>,
   <<"str_camel_case", {"s"}, {"s"}>>,
   <<"str_pascal_case", {"s"}, {"s"}>>,
   <<"str_trim", {"s"}, {"s"}>>,
   <<"str_rtrim", {"s"}, {"s"}>>,
   <<"str_ltrim", {"s"}, {"s"}>>,
   <<"str_substr", {"s"}, {"s"}>>,
   <<"str_replace", {"s", "old", "new"}, {"s", "old", "new"}>>,
   <<"str_replace_all", {"s", "old", "new"}, {"s", "old", "new"}>>,
   <<"str_split", {"s", "delim", "count"}, {"s", "delim", "count"}>>,
   <<"str_join", {"strings", "strings[i]", "delim"}, {"strings", "strings[i]", "delim"}>>,
   <<"str_reverse", {"s"}, {"s"}>>,
   <<"str_reverse_in_place", {"s"}, {"s"}>>}

\* What a call with parameter arg absent does: "returned" when the operation
\* tests arg and returns before any read or write; reading through a NULL
\* pointer is undefined, the call faults or goes on with an indeterminate
\* value.
NullOutcomes(e, arg) ==
  IF arg \in e[3] THEN {"returned"} ELSE {"fault", "indeterminate"}

\* ------------------------------------------------- reference sequence
\* The abstract operations on a plain byte sequence.
AbsInsert(r, index, text) ==
  IF index > Len(r) THEN r
  ELSE SubSeq(r, 1, index) \o text \o SubSeq(r, index + 1, Len(r))

AbsRemove(r, index, count) ==
  IF index >= Len(r) THEN r
  ELSE SubSeq(r, 1, index) \o SubSeq(r, index + MIN(count, Len(r) - index) + 1, Len(r))

AbsResize(r, n) ==
  IF n <= Len(r) THEN SubSeq(r, 1, n) ELSE r \o Fill(n - Len(r), 0)

\* the reference sequence after call c (a call whose realloc failed is no step)
RefStep(r, c) ==
  IF c.oom THEN r
  ELSE CASE c.op \in {"append", "append_fmt"} -> r \o c.t1
         [] c.op = "append_char" -> Append(r, c.a)
         [] c.op = "prepend" -> c.t1 \o r
         [] c.op \in {"insert", "reinsert"} -> AbsInsert(r, c.a, c.t1)
         [] c.op = "remove" -> AbsRemove(r, c.a, c.b)
         [] c.op = "clear" -> <<>>
         [] c.op = "resize" -> AbsResize(r, c.a)
         [] OTHER -> r

\* ---------------------------------------------------------------- state
\* A call: its name, whether it succeeded (true, or a non-NULL result; a void
\* operation returns TRUE), its arguments, a number it gave back, whether a
\* realloc inside it failed, and the caller's block before the call.
Call(op, ret, a, b, t1, t2, n, oom, pre) ==
  [op |-> op, ret |-> ret, a |-> a, b |-> b, t1 |-> t1, t2 |-> t2,
   n |-> n, oom |-> oom, pre |-> pre]

NoCut == [valid |-> FALSE, index |-> 0, bytes |-> <<>>, orig |-> <<>>]

LongSeed == Fill(13, 99) \o <<66, 99>>
Seeds == {<<97, 44, 97>>, <<32>>, <<95, 97, 66>>, LongSeed}
NewCaps == {0, 17}
Texts == {<<98>>, <<44, 97>>}
Chars == {66}
Counts == {1, 2, 99}
Caps == {16, 33}
Spans == {1, 99}
FailAts == {0, 1, 2, 3}
Pats == {<<97>>, <<44>>}
News == {<<>>, <<98, 98>>}

BoundaryIdx(len) == {i \in {0, 1, len - 1, len, len + 1} : i >= 0}
Starts(len) == {0, 1, len}
NewLens(len) == {n \in {0, len - 1, len + 2} : n >= 0}

\* the realloc outcomes to consider for a call that needs capacity cap
Outcomes(cap) ==
  IF heap[s].capacity < cap THEN ReallocOutcome ELSE {[kind |-> "same", fill |-> 0]}

Oom(cap, o) == heap[s].capacity < cap /\ o.kind = "fail"

Start(b, op) ==
  /\ heap = [a \in Addr |-> IF a = 1 THEN b ELSE Dead]
  /\ s = 1
  /\ last = Call(op, TRUE, 0, 0, <<>>, <<>>, 0, FALSE, b)
  /\ out = <<>>
  /\ ref = Bytes(b)
  /\ cut = NoCut
  /\ nops = 0

Init ==
  \/ \E c \in NewCaps, f \in MallocFill : Start(str_new(c, f), "new")
  \/ \E cstr \in Seeds, f \in MallocFill : Start(str_from(cstr, f), "from")
  \/ \E text \in Texts, f \in MallocFill : Start(str_format(text, f), "format")

\* A call that returns buffers or answers a question leaves heap and s as they
\* were: what can follow it is what can follow the state before it, and is
\* explored from there.
Returning ==
  {"substr", "replace", "replace_all", "split", "join", "reverse",
   "compare", "find", "rfind", "reverse_twice", "absent", "new:ret"}

\* A call that is inside one of its loops, and one that ended in a fault:
\* the caller is not running.
Searching == {"remove_all:loop", "replace:loop", "replace_all:loop", "split:loop"}

Rounding == {"new:loop", "ensure_capacity:loop"}

Running == Searching \cup Rounding

Faulted == {"split:fault"}

\* The caller may call while its handle is good and its budget lasts.
CanCall ==
  /\ heap[s].live
  /\ nops < MaxOps
  /\ last.op \notin Returning \cup Running \cup Faulted

\* The caller may ask for buffers while its handle is good.
CanAsk == heap[s].live /\ last.op \notin Returning \cup Running \cup Faulted

\* the state after a call through a pointer to the handle; r is what it returned
Mutated(r, c) ==
  /\ heap' = r.heap
  /\ s' = r.s
  /\ last' = c
  /\ out' = <<>>
  /\ ref' = RefStep(ref, c)
  /\ nops' = nops + 1

\* the state after an in-place call c that left block b
InPlace(b, c) ==
  /\ heap' = [heap EXCEPT ![s] = b]
  /\ last' = c
  /\ out' = <<>>
  /\ ref' = Bytes(b)
  /\ cut' = NoCut
  /\ nops' = nops + 1
  /\ UNCHANGED s

\* a call that takes no argument worth recording
Plain(op) == Call(op, TRUE, 0, 0, <<>>, <<>>, 0, FALSE, heap[s])

\* the state after a call that returned buffers bufs
Returned(bufs, c) ==
  /\ out' = bufs
  /\ last' = c
  /\ cut' = NoCut
  /\ UNCHANGED <<heap, s, ref, nops>>

\* ------------------------------------------------------ edit operations
EnsureCapacity ==
  /\ CanCall
  /\ \E cap \in Caps : \E o \in Outcomes(cap) :
       LET r == str_ensure_capacity(heap, s, cap, o)
       IN Mutated(r, Call("ensure_capacity", r.ret, cap, 0, <<>>, <<>>, 0,
                          Oom(cap, o), heap[s]))
  /\ cut' = NoCut

AppendStr ==
  /\ CanCall
  /\ \E t \in Texts : \E o \in Outcomes(heap[s].length + Len(t) + 1) :
       LET r == str_append(heap, s, t, o)
       IN Mutated(r, Call("append", r.ret, 0, 0, t, <<>>, 0,
                          Oom(heap[s].length + Len(t) + 1, o), heap[s]))
  /\ cut' = NoCut

AppendFmt ==
  /\ CanCall
  /\ \E t \in Texts : \E o \in Outcomes(heap[s].length + Len(t) + 1) :
       LET r == str_append_fmt(heap, s, t, o)
       IN Mutated(r, Call("append_fmt", r.ret, 0, 0, t, <<>>, 0,
                          Oom(heap[s].length + Len(t) + 1, o), heap[s]))
  /\ cut' = NoCut

AppendChar ==
  /\ CanCall
  /\ \E c \in Chars : \E o \in Outcomes(heap[s].length + 2) :
       LET r == str_append_char(heap, s, c, o)
       IN Mutated(r, Call("append_char", r.ret, c, 0, <<>>, <<>>, 0,
                          Oom(heap[s].length + 2, o), heap[s]))
  /\ cut' = NoCut

Prepend ==
  /\ CanCall
  /\ \E t \in Texts : \E o \in Outcomes(heap[s].length + Len(t) + 1) :
       LET r == str_prepend(heap, s, t, o)
       IN Mutated(r, Call("prepend", r.ret, 0, 0, t, <<>>, 0,
                          Oom(heap[s].length + Len(t) + 1, o), heap[s]))
  /\ cut' = NoCut

Insert ==
  /\ CanCall
  /\ \E index \in BoundaryIdx(heap[s].length), t \in Texts :
       \E o \in Outcomes(heap[s].length + Len(t) + 1) :
         LET r == str_insert(heap, s, index, t, o)
         IN Mutated(r, Call("insert", r.ret, index, 0, t, <<>>, 0,
                            index <= heap[s].length
                              /\ Oom(heap[s].length + Len(t) + 1, o), heap[s]))
  /\ cut' = NoCut

Remove ==
  /\ CanCall
  /\ \E index \in BoundaryIdx(heap[s].length), count \in Counts :
       LET r == str_remove(heap, s, index, count)
           b == heap[s]
       IN /\ Mutated(r, Call("remove", r.ret, index, count, <<>>, <<>>, 0,
                             FALSE, b))
          /\ cut' = [valid |-> r.ret, index |-> index, orig |-> Bytes(b),
                     bytes |-> IF r.ret
                               THEN ReadAt(b.data, index,
                                           MIN(count, b.length - index))
                               ELSE <<>>]

\* The caller puts back what its last str_remove took out: str_insert at the
\* same index of the removed bytes, handed over as a C string.
Reinsert ==
  /\ heap[s].live
  /\ last.op = "remove"
  /\ cut.valid
  /\ \E o \in Outcomes(heap[s].length + Len(CStr(cut.bytes)) + 1) :
       LET t == CStr(cut.bytes)
           r == str_insert(heap, s, cut.index, t, o)
       IN /\ heap' = r.heap
          /\ s' = r.s
          /\ last' = Call("reinsert", r.ret, cut.index, 0, t, <<>>, 0,
                          Oom(heap[s].length + Len(t) + 1, o), heap[s])
          /\ ref' = RefStep(ref, last')
  /\ out' = <<>>
  /\ UNCHANGED <<cut, nops>>

Clear ==
  /\ CanCall
  /\ Mutated(Res([heap EXCEPT ![s] = str_clear(heap[s])], s, TRUE),
             Call("clear", TRUE, 0, 0, <<>>, <<>>, 0, FALSE, heap[s]))
  /\ cut' = NoCut

Resize ==
  /\ CanCall
  /\ \E n \in NewLens(heap[s].length) : \E o \in Outcomes(n + 1) :
       LET r == str_resize(heap, s, n, o)
       IN Mutated(r, Call("resize", r.ret, n, 0, <<>>, <<>>, 0,
                          Oom(n + 1, o), heap[s]))
  /\ cut' = NoCut

Edit ==
  \/ AppendStr
  \/ AppendChar
  \/ Prepend
  \/ Insert
  \/ Remove
  \/ Reinsert
  \/ Clear
  \/ Resize

\* ----------------------------------------------------- other mutators
RemoveAll ==
  /\ CanCall
  /\ \E substr \in Pats :
       LET r == str_remove_all(heap[s], substr)
       IN InPlace(r.block, Call("remove_all", TRUE, 0, 0, substr, <<>>, r.count,
                                FALSE, heap[s]))

ToLower == CanCall /\ InPlace(str_to_lower(heap[s]), Plain("to_lower"))
ToUpper == CanCall /\ InPlace(str_to_upper(heap[s]), Plain("to_upper"))

SnakeCase ==
  /\ CanCall
  /\ \E o1 \in ReallocOutcome, o2 \in ReallocOutcome :
       LET r == str_snake_case(heap, s, <<o1, o2>>)
       IN /\ heap' = r.heap
          /\ last' = Call("snake_case", TRUE, 0, 0, <<>>, <<>>, 0, r.failed, heap[s])
          /\ ref' = Bytes(r.heap[r.s])
  /\ out' = <<>>
  /\ cut' = NoCut
  /\ nops' = nops + 1
  /\ UNCHANGED s

CamelCase == CanCall /\ InPlace(str_camel_case(heap[s]), Plain("camel_case"))
PascalCase == CanCall /\ InPlace(str_pascal_case(heap[s]), Plain("pascal_case"))
Trim == CanCall /\ InPlace(str_trim(heap[s]), Plain("trim"))
RTrim == CanCall /\ InPlace(str_rtrim(heap[s]), Plain("rtrim"))
LTrim == CanCall /\ InPlace(str_ltrim(heap[s]), Plain("ltrim"))
ReverseInPlace ==
  CanCall /\ InPlace(str_reverse_in_place(heap[s]), Plain("reverse_in_place"))

\* ------------------------------------------- calls that return buffers
Substr ==
  /\ CanAsk
  /\ \E start \in Starts(heap[s].length), length \in Spans, m \in MallocOutcome :
       LET r == str_substr(heap[s], start, length, m)
       IN Returned(r, Call("substr", r # <<>>, start, length, <<>>, <<>>, 0,
                           FALSE, heap[s]))

Replace ==
  /\ CanAsk
  /\ \E old \in Pats, new \in News, m \in MallocOutcome :
       LET r == str_replace(heap[s], old, new, m)
       IN Returned(r, Call("replace", r # <<>>, 0, 0, old, new, 0, FALSE, heap[s]))

ReplaceAll ==
  /\ CanAsk
  /\ \E old \in Pats, new \in News, m \in MallocOutcome :
       LET r == str_replace_all(heap[s], old, new, m)
       IN Returned(r, Call("replace_all", r # <<>>, 0, 0, old, new, 0, FALSE,
                           heap[s]))

Split ==
  /\ CanAsk
  /\ \E delim \in Pats, fill \in MallocFill, failAt \in FailAts :
       LET r == str_split(heap[s], delim, fill, failAt)
       IN Returned(r.tokens, Call("split", r.tokens # <<>>, r.max_splits, 0,
                                  delim, <<>>, r.count, FALSE, heap[s]))

\* str_join of the tokens the last str_split returned
Join ==
  /\ heap[s].live
  /\ last.op = "split"
  /\ last.ret
  /\ \E delim \in Pats, m \in MallocOutcome :
       LET r == str_join(out, delim, m)
       IN Returned(r, Call("join", r # <<>>, 0, 0, delim, last.t1, Len(out),
                           FALSE, heap[s]))

Reverse ==
  /\ CanAsk
  /\ \E m \in MallocOutcome :
       LET r == str_reverse(heap[s], m)
       IN Returned(r, Call("reverse", r # <<>>, 0, 0, <<>>, <<>>, 0, FALSE, heap[s]))

\* ------------------------------------------------------------- queries
\* the C strings a second buffer is built from
Peers == {<<>>, <<97, 44, 97>>}

\* a second str* the caller holds: NULL or a buffer made by str_from
Peer == {NULL} \cup {<<str_from(c, f)>> : c \in Peers, f \in MallocFill}

\* str_compare and str_equals of the caller's buffer (or NULL) and a second
\* one, in either order; a and b hold the two arguments, n what str_compare
\* returned, ret what str_equals returned
Compare ==
  /\ CanAsk
  /\ \E x \in {NULL, <<heap[s]>>}, y \in Peer, swap \in BOOLEAN :
       LET s1 == IF swap THEN y ELSE x
           s2 == IF swap THEN x ELSE y
       IN Returned(<<>>, Call("compare", str_equals(s1, s2), s1, s2, <<>>, <<>>,
                              str_compare(s1, s2), FALSE, heap[s]))

\* str_reverse of the buffer str_reverse returned; out holds the second one
ReverseTwice ==
  /\ CanAsk
  /\ \E m1 \in MallocOutcome, m2 \in MallocOutcome :
       LET r1 == str_reverse(heap[s], m1)
           r2 == IF r1 = <<>> THEN <<>> ELSE str_reverse(r1[1], m2)
       IN Returned(r2, Call("reverse_twice", r2 # <<>>, 0, 0, <<>>, <<>>, 0, FALSE,
                            heap[s]))

\* A public operation called with one pointer argument absent; a and b hold
\* the operation and the argument, n what the call did.  What it does is
\* decided before the caller's buffer is looked at, so it is called on a
\* fresh buffer only.
Absent ==
  /\ CanAsk
  /\ nops = 0
  /\ \E e \in NullChecks : \E arg \in e[2] : \E o \in NullOutcomes(e, arg) :
       Returned(<<>>, Call("absent", o = "returned", e[1], arg, <<>>, <<>>, o,
                          FALSE, heap[s]))

\* ------------------------------------------------- calls, loop by loop
\* The searching loops of str_remove_all, str_replace, str_replace_all and
\* str_split, one iteration a step, for patterns that may be empty.  While a
\* call runs, last holds its locals: a the offset p (max_splits in
\* str_split, whose offset start is b), n the count.
LoopPats == {<<>>, <<97>>}

RemoveAllStart ==
  /\ CanCall
  /\ nops = 0
  /\ \E substr \in LoopPats :
       Returned(<<>>, Call("remove_all:loop", FALSE, 0, 0, substr, <<>>, 0, FALSE,
                          heap[s]))

\* while ((p = strstr(p, substr))) { memmove; length -= substr_len; ++count; }
RemoveAllIter ==
  /\ last.op = "remove_all:loop"
  /\ LET b == heap[s]
         j == strstr(b.data, last.a, last.t1)
     IN IF j = -1
        THEN InPlace(b, [last EXCEPT !.op = "remove_all", !.ret = TRUE, !.a = 0])
        ELSE /\ heap' = [heap EXCEPT ![s] = RemoveAllBody(b, j, last.t1)]
             /\ last' = [last EXCEPT !.a = j, !.n = SizeAdd(last.n, 1)]
             /\ UNCHANGED <<s, out, ref, cut, nops>>

ReplaceStart ==
  /\ CanAsk
  /\ nops = 0
  /\ \E op \in {"replace:loop", "replace_all:loop"}, old \in LoopPats, new \in News :
       Returned(<<>>, Call(op, FALSE, 0, 0, old, new, 0, FALSE, heap[s]))

\* while ((p = strstr(p, old))) { ++count; p += old_len; } and, the loop
\* left, the rest of the call
ReplaceIter ==
  /\ last.op \in {"replace:loop", "replace_all:loop"}
  /\ LET j == strstr(heap[s].data, last.a, last.t1)
     IN IF j = -1
        THEN \E m \in MallocOutcome :
               LET r == IF last.op = "replace:loop"
                        THEN str_replace(heap[s], last.t1, last.t2, m)
                        ELSE str_replace_all(heap[s], last.t1, last.t2, m)
                   op == IF last.op = "replace:loop" THEN "replace" ELSE "replace_all"
               IN Returned(r, Call(op, r # <<>>, 0, 0, last.t1, last.t2, 0, FALSE,
                                   heap[s]))
        ELSE /\ last' = [last EXCEPT !.a = j + Len(last.t1), !.n = SizeAdd(last.n, 1)]
             /\ UNCHANGED <<heap, s, out, ref, cut, nops>>

\* str_split up to its loop: max_splits, malloc of the array
SplitStart ==
  /\ CanAsk
  /\ nops = 0
  /\ \E delim \in LoopPats : \E d \in Quotients(heap[s].length, Len(delim)) :
       \E ok \in BOOLEAN :
         LET max_splits == SizeAdd(d.q, 1)
         IN IF d.fault
            THEN Returned(<<>>, Call("split:fault", FALSE, 0, 0, delim, <<>>, 0,
                                    FALSE, heap[s]))
            ELSE IF ~ok
            THEN Returned(<<>>, Call("split", FALSE, max_splits, 0, delim, <<>>, 0,
                                    FALSE, heap[s]))
            ELSE Returned(<<>>, Call("split:loop", FALSE, max_splits, 0, delim, <<>>,
                                    0, FALSE, heap[s]))

\* while ((end = strstr(start, delim))) { token; ++(*count); start = end + delim_len; }
\* and, the loop left, the last token.  A store to result[*count] past the
\* max_splits slots is undefined: it faults, or the store is lost and the
\* loop goes on.
SplitIter ==
  /\ last.op = "split:loop"
  /\ \E fill \in MallocFill, ok \in BOOLEAN, lost \in BOOLEAN :
       LET b == heap[s]
           start == last.b
           end == strstr(b.data, start, last.t1)
           NoMem == Returned(<<>>, [last EXCEPT !.op = "split", !.b = 0])
       IN IF ~ok THEN NoMem
          ELSE IF end = -1
          THEN Returned(Store(out, last.n, Token(b.data, start, b.length - start, fill)),
                        [last EXCEPT !.op = "split", !.ret = TRUE, !.b = 0,
                                     !.n = SizeAdd(last.n, 1)])
          ELSE IF last.n < last.a
          THEN Returned(Store(out, last.n, Token(b.data, start, end - start, fill)),
                        [last EXCEPT !.b = end + Len(last.t1),
                                     !.n = SizeAdd(last.n, 1)])
          ELSE IF lost
          THEN Returned(out, [last EXCEPT !.b = end + Len(last.t1),
                                          !.n = SizeAdd(last.n, 1)])
          ELSE Returned(out, [last EXCEPT !.op = "split:fault"])

Find ==
  /\ CanAsk
  /\ \E substr \in Pats :
       Returned(<<>>, Call("find", TRUE, 0, 0, substr, <<>>,
                          str_find(heap[s], substr), FALSE, heap[s]))

RFind ==
  /\ CanAsk
  /\ \E substr \in Pats :
       Returned(<<>>, Call("rfind", TRUE, 0, 0, substr, <<>>,
                          str_rfind(heap[s], substr), FALSE, heap[s]))

\* --------------------------------------------- capacity rounding, by step
\* requests around half the range of size_t
BigCaps == {SIZE_MOD \div 2 - 1, SIZE_MOD \div 2, SIZE_MOD \div 2 + 1, SIZE_MOD - 1}

\* str_new and str_ensure_capacity up to the loop of str_round_capacity; a
\* holds the capacity asked for, n the local result
RoundStart ==
  /\ CanCall
  /\ nops = 0
  /\ \/ \E capacity \in BigCaps :
          Returned(<<>>, Call("new:loop", FALSE, MAX(capacity, 1), 0, <<>>, <<>>,
                             STR_MIN_CAPACITY, FALSE, heap[s]))
     \/ \E capacity \in BigCaps :
          /\ heap[s].capacity < capacity
          /\ Returned(<<>>, Call("ensure_capacity:loop", FALSE, capacity, 0, <<>>,
                                <<>>, STR_MIN_CAPACITY, FALSE, heap[s]))

\* while (result < capacity) result *= 2; and, the loop left, the rest of
\* str_new or str_ensure_capacity.  b tells where the call is: 0 at the test
\* of the loop, 1 inside its body.
RoundIter ==
  /\ last.op \in Rounding
  /\ IF last.b = 1
     THEN /\ last' = [last EXCEPT !.n = SizeMul(last.n, 2), !.b = 0]
          /\ UNCHANGED <<heap, s, out, ref, cut, nops>>
     ELSE IF last.n < last.a
     THEN /\ last' = [last EXCEPT !.b = 1]
          /\ UNCHANGED <<heap, s, out, ref, cut, nops>>
     ELSE IF last.op = "new:loop"
     THEN \E m \in MallocOutcome :
            LET r == IF m.ok THEN <<str_new(last.a, m.fill)>> ELSE <<>>
            IN Returned(r, Call("new:ret", r # <<>>, last.a, 0, <<>>, <<>>, 0,
                                ~m.ok, heap[s]))
     ELSE \E o \in Outcomes(last.a) :
            LET r == str_ensure_capacity(heap, s, last.a, o)
            IN /\ Mutated(r, Call("ensure_capacity", r.ret, last.a, 0, <<>>, <<>>, 0,
                                  Oom(last.a, o), heap[s]))
               /\ cut' = NoCut

Round ==
  \/ RoundStart
  \/ RoundIter

Loops ==
  \/ RemoveAllStart
  \/ RemoveAllIter
  \/ ReplaceStart
  \/ ReplaceIter
  \/ SplitStart
  \/ SplitIter

Next ==
  \/ Edit
  \/ EnsureCapacity
  \/ AppendFmt
  \/ RemoveAll
  \/ ToLower
  \/ ToUpper
  \/ SnakeCase
  \/ CamelCase
  \/ PascalCase
  \/ Trim
  \/ RTrim
  \/ LTrim
  \/ ReverseInPlace
  \/ Substr
  \/ Replace
  \/ ReplaceAll
  \/ Split
  \/ Join
  \/ Reverse
  \/ Compare
  \/ Find
  \/ RFind
  \/ ReverseTwice
  \/ Absent
  \/ Loops
  \/ Round

Spec == Init /\ [][Next]_vars

\* The edit operations alone, from construction on.
SpecEdit == Init /\ [][Edit]_vars

\* The calls followed loop by loop; a call that has started goes on.
SpecLoops == Init /\ [][Loops]_vars /\ WF_vars(Loops)

\* Capacity rounding step by step; a call that has started goes on.
SpecRound == Init /\ [][Round]_vars /\ WF_vars(Round)

\* The edit operations and the reversals.
Reversal ==
  \/ Edit
  \/ ReverseInPlace
  \/ Reverse
  \/ ReverseTwice

SpecReverse == Init /\ [][Reversal]_vars

\* ---------------------------------------------------------------- claims
\* every buffer that is allocated: the caller's block and the returned ones
LiveBuffers ==
  {heap[a] : a \in {x \in Addr : heap[x].live}} \cup {out[i] : i \in 1..Len(out)}

IsPowerOfTwo(n) == \E k \in 0..SizeBits : n = 2 ^ k

\* C1: every live buffer, constructed, mutated in place or returned, has a
\* capacity that is a power of two, at least 16, and greater than its length.
C1_CapacityShape ==
  \A b \in LiveBuffers :
    /\ IsPowerOfTwo(b.capacity)
    /\ b.capacity >= STR_MIN_CAPACITY
    /\ b.capacity > b.length

\* C2: every live buffer, mutated in place or returned, holds a zero byte at
\* index length.
C2_Terminated ==
  \A b \in LiveBuffers : b.length < Len(b.data) /\ b.data[b.length + 1] = 0

\* C3: after every call the caller's handle refers to the live block, never to
\* storage that realloc freed or moved.
C3_HandleLive == heap[s].live

\* C4: a call inside which realloc failed reports the failure and leaves the
\* caller's block (length, capacity, content) as it was before the call.
C4_FailureLeavesBuffer ==
  last.oom => ~last.ret /\ heap[s].live /\ heap[s] = last.pre

HasZero(bytes) == \E i \in 1..Len(bytes) : bytes[i] = 0

\* the buffer and the reference sequence agree, and the calls with an index
\* out of range return false and change nothing
EditRefines ==
  /\ heap[s].live
  /\ heap[s].length = Len(ref)
  /\ Bytes(heap[s]) = ref
  /\ last.op = "insert" /\ last.a > last.pre.length
       => ~last.ret /\ heap[s] = last.pre
  /\ last.op = "remove" /\ last.a >= last.pre.length
       => ~last.ret /\ heap[s] = last.pre

\* C5 (as stated): after any sequence of append, append_char, prepend, insert,
\* remove, clear and resize the buffer's length and bytes are those of the
\* reference sequence under the abstract operations; insert with index > length
\* and remove with index >= length return false and change nothing; removing a
\* span and re-inserting the removed bytes at the same index restores the
\* content.
C5_EditAsStated ==
  /\ EditRefines
  /\ last.op = "reinsert" /\ last.ret => Bytes(heap[s]) = cut.orig

\* C5 (amended): the same, the round trip holding for a removed span that
\* contains no zero byte (str_insert takes the bytes as a C string).
C5_Edit ==
  /\ EditRefines
  /\ last.op = "reinsert" /\ last.ret /\ ~HasZero(cut.bytes)
       => Bytes(heap[s]) = cut.orig

\* C5 witness: a buffer that was reallocated past 16 bytes got a removed span
\* re-inserted.
C5_Witness ==
  /\ last.op = "reinsert"
  /\ last.ret
  /\ cut.bytes # <<>>
  /\ ~HasZero(cut.bytes)
  /\ heap[s].capacity > STR_MIN_CAPACITY
  /\ heap[s].length >= STR_MIN_CAPACITY

\* the segments of byte sequence r between the non-overlapping occurrences of
\* d, found left to right
RECURSIVE Segments(_, _)
Segments(r, d) ==
  LET at == {i \in 1..(Len(r) - Len(d) + 1) : SubSeq(r, i, i + Len(d) - 1) = d}
      first == CHOOSE i \in at : \A j \in at : i <= j
  IN IF at = {} THEN <<r>>
     ELSE <<SubSeq(r, 1, first - 1)>> \o Segments(SubSeq(r, first + Len(d), Len(r)), d)

Occurrences(r, d) == Len(Segments(r, d)) - 1

RECURSIVE Glue(_, _)
Glue(segs, d) ==
  IF Len(segs) = 1 THEN segs[1] ELSE segs[1] \o d \o Glue(Tail(segs), d)

\* C6: str_split returns occurrences + 1 segments in order, never more than
\* the length / len(d) + 1 slots allocated, and str_join of them with d gives
\* back the bytes and length of s, s being left as it was.
C6_SplitJoin ==
  /\ last.op = "split" /\ last.ret
       => /\ Len(out) = Occurrences(Bytes(last.pre), last.t1) + 1
          /\ last.n = Len(out)
          /\ \A i \in 1..Len(out) :
               Bytes(out[i]) = Segments(Bytes(last.pre), last.t1)[i]
          /\ Len(out) <= last.a
          /\ heap[s] = last.pre
  /\ last.op = "join" /\ last.ret /\ last.t1 = last.t2
       => /\ Bytes(out[1]) = Bytes(heap[s])
          /\ out[1].length = heap[s].length
          /\ heap[s] = last.pre

\* C7: str_replace_all returns a buffer with every non-overlapping occurrence
\* of old replaced by new and the other bytes copied in order, of length
\* len(s) + occurrences * (len(new) - len(old)), s being left as it was.
C7_ReplaceAll ==
  last.op = "replace_all" /\ last.ret
    => /\ Bytes(out[1]) = Glue(Segments(Bytes(last.pre), last.t1), last.t2)
       /\ out[1].length = last.pre.length
            + Occurrences(Bytes(last.pre), last.t1) * (Len(last.t2) - Len(last.t1))
       /\ heap[s] = last.pre

\* r with its first occurrence of old replaced by new
FirstReplaced(r, old, new) ==
  LET segs == Segments(r, old)
  IN IF Len(segs) = 1 THEN r
     ELSE segs[1] \o new \o SubSeq(r, Len(segs[1]) + Len(old) + 1, Len(r))

\* C8: str_replace replaces the first occurrence of old only; later
\* occurrences stay.
C8_ReplaceFirst ==
  last.op = "replace" /\ last.ret
    => Bytes(out[1]) = FirstReplaced(Bytes(last.pre), last.t1, last.t2)

\* the longest prefix of r that does not end in a whitespace byte
RightTrimmed(r) ==
  LET ends == {k \in 0..Len(r) : k = 0 \/ ~isspace(r[k])}
  IN SubSeq(r, 1, CHOOSE k \in ends : \A j \in ends : j <= k)

\* C9: after str_rtrim the buffer is empty or ends in a byte that is no
\* whitespace, its content is the longest prefix of the original that does not
\* end in whitespace, and its capacity is unchanged.
C9_RTrim ==
  last.op = "rtrim"
    => /\ heap[s].length = 0 \/ ~isspace(heap[s].data[heap[s].length])
       /\ Bytes(heap[s]) = RightTrimmed(Bytes(last.pre))
       /\ heap[s].capacity = last.pre.capacity

IsSeparator(c) == c = 32 \/ c = 95

\* the bytes of r that are no separators, each lowercased unless it follows a
\* separator; the first one lowercased
RECURSIVE CamelOf(_, _, _)
CamelOf(r, i, acc) ==
  IF i > Len(r) THEN acc
  ELSE IF IsSeparator(r[i]) THEN CamelOf(r, i + 1, acc)
  ELSE IF acc # <<>> /\ i > 1 /\ IsSeparator(r[i - 1])
       THEN CamelOf(r, i + 1, Append(acc, toupper(r[i])))
       ELSE CamelOf(r, i + 1, Append(acc, tolower(r[i])))

\* C10: after str_camel_case on a non-empty buffer the content holds no space
\* or underscore, its length is the original length less the separators, the
\* first byte is lowercased, the first byte of each later token uppercased and
\* every other byte lowercased.
C10_CamelCase ==
  last.op = "camel_case" /\ last.pre.length > 0
    => /\ \A i \in 1..heap[s].length : ~IsSeparator(heap[s].data[i])
       /\ heap[s].length = last.pre.length
            - Cardinality({i \in 1..last.pre.length : IsSeparator(last.pre.data[i])})
       /\ Bytes(heap[s]) = CamelOf(Bytes(last.pre), 1, <<>>)

\* byte-lexicographic three-way comparison of two byte sequences
RECURSIVE Lex(_, _)
Lex(x, y) ==
  IF x = <<>> /\ y = <<>> THEN 0
  ELSE IF x = <<>> THEN -1
  ELSE IF y = <<>> THEN 1
  ELSE IF Head(x) < Head(y) THEN -1
  ELSE IF Head(x) > Head(y) THEN 1
  ELSE Lex(Tail(x), Tail(y))

\* C11: str_compare is the byte-lexicographic three-way comparison of the
\* first length bytes of its arguments, an absent buffer comparing less than
\* a present one and equal to an absent one; str_equals is true of two
\* buffers exactly when they have the same length and the same bytes.
C11_Compare ==
  last.op = "compare"
    => /\ last.a # NULL /\ last.b # NULL
            => /\ last.n = Lex(Bytes(last.a[1]), Bytes(last.b[1]))
               /\ last.ret <=> /\ last.a[1].length = last.b[1].length
                               /\ Bytes(last.a[1]) = Bytes(last.b[1])
       /\ last.a = NULL /\ last.b # NULL => last.n < 0
       /\ last.a # NULL /\ last.b = NULL => last.n > 0
       /\ last.a = NULL /\ last.b = NULL => last.n = 0 /\ last.ret

\* the offsets in [0, length - len(sub)] at which the bytes of r equal sub
Offsets(r, sub) ==
  {i \in 0..(Len(r) - Len(sub)) : SubSeq(r, i + 1, i + Len(sub)) = sub}

\* C12: for a non-empty sub, str_find returns the smallest and str_rfind the
\* largest offset at which the bytes of s equal sub, both STR_NPOS exactly
\* when there is none: str_find is STR_NPOS if and only if str_rfind is, and
\* str_find <= str_rfind otherwise.
C12_Find ==
  LET at == Offsets(Bytes(last.pre), last.t1)
  IN /\ last.op = "find"
          => /\ at = {} => last.n = STR_NPOS
             /\ at # {} => last.n \in at /\ \A i \in at : last.n <= i
             /\ last.n = STR_NPOS <=> str_rfind(last.pre, last.t1) = STR_NPOS
             /\ last.n # STR_NPOS => last.n <= str_rfind(last.pre, last.t1)
     /\ last.op = "rfind"
          => /\ at = {} => last.n = STR_NPOS
             /\ at # {} => last.n \in at /\ \A i \in at : last.n >= i
             /\ last.n = STR_NPOS <=> str_find(last.pre, last.t1) = STR_NPOS
             /\ last.n # STR_NPOS => str_find(last.pre, last.t1) <= last.n

\* byte i of x is byte length-1-i of the first length bytes of y
Mirrors(x, y) ==
  /\ x.length = y.length
  /\ \A i \in 1..y.length : x.data[i] = y.data[y.length + 1 - i]

\* C13: str_reverse of a non-empty s returns a new buffer of the same length
\* whose byte i is byte length-1-i of s, s being left as it was; reversing
\* the result again gives the bytes and length of s; str_reverse_in_place
\* leaves in s the content str_reverse would return, length and capacity
\* unchanged.
C13_Reverse ==
  /\ last.op = "reverse" /\ last.ret
       => Mirrors(out[1], last.pre) /\ heap[s] = last.pre
  /\ last.op = "reverse" /\ last.pre.length > 0 /\ ~last.ret => out = <<>>
  /\ last.op = "reverse_twice" /\ last.ret
       => /\ out[1].length = last.pre.length
          /\ Bytes(out[1]) = Bytes(last.pre)
          /\ heap[s] = last.pre
  /\ last.op = "reverse_in_place" /\ last.pre.length > 0
       => /\ Mirrors(heap[s], last.pre)
          /\ \A m \in {o \in MallocOutcome : o.ok} :
               Bytes(heap[s]) = Bytes(str_reverse(last.pre, m)[1])
          /\ heap[s].length = last.pre.length
          /\ heap[s].capacity = last.pre.capacity

\* C13 witness: a buffer of three or more bytes that is no palindrome was
\* reversed twice.
C13_Witness ==
  /\ last.op = "reverse_twice"
  /\ last.ret
  /\ last.pre.length >= 3
  /\ last.pre.data[1] # last.pre.data[last.pre.length]
  /\ Bytes(out[1]) = Bytes(last.pre)

\* C14: every public operation called with an absent buffer, buffer
\* reference or string argument returns its failure value without reading
\* through the absent input and without changing any buffer.
C14_Absent ==
  last.op = "absent" => last.n = "returned" /\ last.ret /\ heap[s] = last.pre

\* C15: str_remove_all, str_replace, str_replace_all and str_split, called
\* with a substring, old pattern or delimiter that may be empty, terminate
\* and return a result: no call ends in a fault, and a call that is inside
\* its loop comes to leave it.
C15_Terminates ==
  /\ [](last.op \notin Faulted)
  /\ (last.op \in Searching)
       ~> (last.op \in {"remove_all", "replace", "replace_all", "split"} \cup Faulted)

\* the smallest power of two >= n
RoundedUp(n) == CHOOSE c \in {2 ^ k : k \in 0..SizeBits} :
                  c >= n /\ \A k \in 0..SizeBits : 2 ^ k >= n => c <= 2 ^ k

\* C16: for every requested capacity of the w-bit size type, capacity
\* rounding terminates: str_new and str_ensure_capacity come to return, and
\* what they return is an allocation failure or a buffer whose capacity is
\* the smallest power of two >= max(capacity, 16).
C16_Rounding ==
  /\ [](last.op = "new:ret" /\ last.ret
          => out[1].capacity = RoundedUp(MAX(last.a, STR_MIN_CAPACITY)))
  /\ [](last.op = "ensure_capacity" /\ last.ret /\ last.pre.capacity < last.a
          => heap[s].capacity = RoundedUp(MAX(last.a, STR_MIN_CAPACITY)))
  /\ (last.op \in Rounding) ~> (last.op \in {"new:ret", "ensure_capacity"})
====
